---- MODULE Spec2Model ----
(***************************************************************************)
(* A model of noirc_frontend/src/hir/type_check/expr.rs: the expression    *)
(* type checker (type_check_expression), the binary-operator rule table    *)
(* (infix_operand_type_rules), the call-argument check                      *)
(* (check_param_argument) and extract_last_type_from_block.                *)
(*                                                                         *)
(* A Type is a tuple whose first element is its tag:                        *)
(*   <<"FieldElement">>, <<"Constant">>, <<"Witness">>, <<"Public">>,      *)
(*   <<"Bool">>, <<"Unit">>, <<"Unknown">>, <<"Unspecified">>, <<"Error">>,*)
(*   <<"Integer", sign, bit_width>>, <<"Array", size, element_type>>       *)
(* and an ArraySize is <<"Variable">> or <<"Fixed", n>>.                   *)
(***************************************************************************)
EXTENDS Integers, Sequences, FiniteSets, TLC

VARIABLES
    program,      \* the expression tree held by the interner: the nodes read so far
    stack,        \* call stack of type_check_expression: frames [h, pc]
    id_to_type,   \* the interner's type table for expression handles
    ident_type,   \* the interner's type table for identifier definitions
    pushes,       \* history: the push_expr_type calls, in order, <<handle, type>>
    visited,      \* history: handles type_check_expression was entered for
    status,       \* "running" | "done" | "panic" | "idle"
    err,          \* the panic raised: <<kind, detail>>, <<>> when none
    budget,       \* nodes the tree may still grow by (bounds the tree)
    bindings,     \* history: the push_ident_type calls, in order, <<For handle, type>>
    lhs_type,     \* infix_operand_type_rules: first operand
    op,           \* infix_operand_type_rules: operator
    other,        \* infix_operand_type_rules: second operand
    result        \* infix_operand_type_rules: <<"Ok", t>>, <<"Err", kind, detail>>; <<>> before the call

vars == <<program, budget, bindings, stack, id_to_type, ident_type, pushes, visited, status, err,
          lhs_type, op, other, result>>

walkerVars == <<program, budget, bindings, stack, id_to_type, ident_type, pushes, visited, status, err>>
rulesVars == <<lhs_type, op, other, result>>

(***************************************************************************)
(* Bounds of the model.                                                    *)
(***************************************************************************)
\* Nesting depth of Array types drawn as operands of the rule table.
MaxArrayNest == 1
\* Largest Fixed(n) array size drawn as an operand of the rule table.
MaxFixed == 2
\* Largest number of expression nodes in a checked program.
MaxNodes == 5

(***************************************************************************)
(* The Type value set.                                                     *)
(***************************************************************************)
Signs == {"Signed", "Unsigned"}
BitWidths == {8, 16}

TField == <<"FieldElement">>
TConstant == <<"Constant">>
TWitness == <<"Witness">>
TPublic == <<"Public">>
TBool == <<"Bool">>
TUnit == <<"Unit">>
TUnknown == <<"Unknown">>
TUnspecified == <<"Unspecified">>
TError == <<"Error">>
TInteger(sign, bit_width) == <<"Integer", sign, bit_width>>
TArray(size, elem) == <<"Array", size, elem>>
Fixed(n) == <<"Fixed", n>>
Variable == <<"Variable">>

ScalarTypes ==
    {TField, TConstant, TWitness, TPublic, TBool, TUnit, TUnknown, TUnspecified, TError}
    \cup {TInteger(s, w) : s \in Signs, w \in BitWidths}

ArraySizes == {Variable} \cup {Fixed(n) : n \in 1..MaxFixed}

RECURSIVE TypesUpTo(_)
TypesUpTo(d) ==
    IF d = 0 THEN ScalarTypes
    ELSE ScalarTypes \cup {TArray(s, e) : s \in ArraySizes, e \in TypesUpTo(d - 1)}

Types == TypesUpTo(MaxArrayNest)

Tag(t) == t[1]
IsInteger(t) == Tag(t) = "Integer"
IsArray(t) == Tag(t) = "Array"
is_variable_sized_array(t) == IsArray(t) /\ t[2][1] = "Variable"
is_fixed_sized_array(t) == IsArray(t) /\ t[2][1] = "Fixed"

(***************************************************************************)
(* Operators.                                                              *)
(***************************************************************************)
Comparators == {"Equal", "Less"}
BinaryOps == {"Add", "Multiply"} \cup Comparators
is_comparator(o) == o \in Comparators

(***************************************************************************)
(* infix_operand_type_rules: the match of lines 173-213, arm by arm.       *)
(***************************************************************************)
Ok(t) == <<"Ok", t>>
Err(kind, detail) == <<"Err", kind, detail>>

\* A slip in the order of the two checks of the Integer-Integer arm.
IntegerPairRuleWidthFirst(x, y) ==
    IF x[3] # y[3] THEN Err("IntegerBitWidth", <<x[3], y[3]>>)
    ELSE IF x[2] # y[2] THEN Err("IntegerSignedness", <<x[2], y[2]>>)
    ELSE Ok(TInteger(x[2], x[3]))

\* (Type::Integer(sign_x, bit_width_x), Type::Integer(sign_y, bit_width_y))
IntegerPairRule(x, y) ==
    IF x[2] # y[2] THEN Err("IntegerSignedness", <<x[2], y[2]>>)
    ELSE IF x[3] # y[3] THEN Err("IntegerBitWidth", <<x[3], y[3]>>)
    ELSE Ok(TInteger(x[2], x[3]))

EitherIs(tag, l, r) == Tag(l) = tag \/ Tag(r) = tag

\* A slip that drops the second alternative of the Integer-Constant pattern.
IntegerWithConstantOneOrder(l, r) == IsInteger(l) /\ r = TConstant

\* (Type::Integer(..), Type::Constant) | (Type::Constant, Type::Integer(..))
IntegerWithConstant(l, r) ==
    \/ IsInteger(l) /\ r = TConstant
    \/ l = TConstant /\ IsInteger(r)

\* The Integer operand bound by the pattern that matched.
IntegerOf(l, r) == IF IsInteger(l) THEN TInteger(l[2], l[3]) ELSE TInteger(r[2], r[3])

infix_operand_type_rules(l, o, r) ==
    IF is_comparator(o) THEN Ok(TBool)
    ELSE IF IsInteger(l) /\ IsInteger(r) THEN IntegerPairRule(l, r)
    ELSE IF (IsInteger(l) /\ r = TWitness) \/ (l = TWitness /\ IsInteger(r))
        THEN Err("IntegerWitness", <<>>)
    ELSE IF IntegerWithConstant(l, r) THEN Ok(IntegerOf(l, r))
    ELSE IF IsInteger(l) THEN Err("IntegerOther", <<r>>)
    ELSE IF IsInteger(r) THEN Err("IntegerOther", <<l>>)
    ELSE IF EitherIs("Array", l, r) THEN Err("ArrayInfix", <<>>)
    ELSE IF EitherIs("Error", l, r) THEN Ok(TError)
    ELSE IF EitherIs("Unspecified", l, r) THEN Ok(TUnspecified)
    ELSE IF EitherIs("Unknown", l, r) THEN Ok(TUnknown)
    ELSE IF EitherIs("Unit", l, r) THEN Ok(TUnit)
    ELSE IF EitherIs("Witness", l, r) THEN Ok(TWitness)
    ELSE IF EitherIs("Public", l, r) THEN Ok(TWitness)
    ELSE IF EitherIs("Bool", l, r) THEN Ok(TBool)
    ELSE IF EitherIs("FieldElement", l, r) THEN Ok(TField)
    ELSE IF l = TConstant /\ r = TConstant THEN Ok(TConstant)
    ELSE <<"NoMatch">>

(***************************************************************************)
(* The rule table called on its own, on every pair of types.               *)
(***************************************************************************)
InitRules ==
    /\ lhs_type \in Types
    /\ op \in BinaryOps
    /\ other \in Types
    /\ result = <<>>
    /\ program = <<>>
    /\ budget = 0
    /\ bindings = <<>>
    /\ stack = <<>>
    /\ id_to_type = <<>>
    /\ ident_type = <<>>
    /\ pushes = <<>>
    /\ visited = {}
    /\ status = "idle"
    /\ err = <<>>

CallInfixRules ==
    /\ status = "idle"
    /\ result = <<>>
    /\ result' = infix_operand_type_rules(lhs_type, op, other)
    /\ UNCHANGED <<lhs_type, op, other>>
    /\ UNCHANGED walkerVars

NextRules == CallInfixRules

SpecRules == InitRules /\ [][NextRules]_vars

(***************************************************************************)
(* The interner's contents: identifier definitions, function signatures    *)
(* and the expression tree handed to the checker.                          *)
(*                                                                         *)
(* An expression handle (ExprId) is the expression's path from the root,   *)
(* so every handle occurs once in the tree.  interner.expression(h) is a   *)
(* node <<kind, attribute, n>> with n sub-expressions h \o <<1>> .. <<n>>: *)
(*   <<"Ident", name, 0>>        <<"Integer", <<>>, 0>>                    *)
(*   <<"Bool", <<>>, 0>>         <<"Str", <<>>, 0>>                        *)
(*   <<"Array", <<>>, n>>        contents 1..n                             *)
(*   <<"Infix", operator, 2>>    lhs, rhs                                  *)
(*   <<"Index", collection_name, 1>>   index                               *)
(*   <<"Call", func_id, n>>      arguments 1..n                            *)
(*   <<"Cast", type, 1>>         lhs                                       *)
(*   <<"For", block, 2 + e>>     start_range, end_range, then the          *)
(*                               expressions of the block's e statements   *)
(*                               that own one                              *)
(*   <<"Prefix", <<>>, 1>>   <<"Predicate", <<>>, 2>>   <<"If", <<>>, 1>>  *)
(* A For's block is the sequence of its statements' kinds: "Expression"    *)
(* and "Let" statements own one expression each, a "Block" statement is a  *)
(* nested block.                                                           *)
(*                                                                         *)
(* The tree is immutable; the model draws each node when the checker       *)
(* first reads it (ReadExpression), out of every node that keeps the tree  *)
(* within MaxNodes nodes.                                                  *)
(***************************************************************************)
GlobalIdents == {"w", "a", "v"}
LoopIdent == "i"

GlobalTypes ==
    [x \in GlobalIdents |->
        IF x = "w" THEN TWitness
        ELSE IF x = "a" THEN TArray(Fixed(2), TWitness)
        ELSE TArray(Variable, TConstant)]

FuncIds == {"f1", "f2"}

\* function_meta(func_id): the parameters (identifier, type) and the return type
function_meta(f) ==
    IF f = "f1"
    THEN [parameters |-> << <<"p", TArray(Variable, TConstant)>> >>, return_type |-> TBool]
    ELSE [parameters |-> << <<"x", TConstant>>, <<"y", TWitness>> >>, return_type |-> TField]

WalkOps == {"Add", "Equal"}
CastTypes == {TInteger("Unsigned", 8), TConstant}
Collections == {"a", "w"}
StatementKinds == {"Expression", "Let", "Block"}

RECURSIVE BlocksUpTo(_)
BlocksUpTo(n) ==
    IF n <= 0 THEN {<<>>}
    ELSE BlocksUpTo(n - 1)
         \cup {Append(b, k) : b \in {c \in BlocksUpTo(n - 1) : Len(c) = n - 1},
                              k \in StatementKinds}

HasExpression(stmt) == stmt # "Block"

\* Number of statements among the first j of block that own an expression.
RECURSIVE ExprStatementsIn(_, _)
ExprStatementsIn(block, j) ==
    IF j = 0 THEN 0
    ELSE ExprStatementsIn(block, j - 1) + (IF HasExpression(block[j]) THEN 1 ELSE 0)

\* Nodes of the tree a node accounts for besides itself.
Cost(node) ==
    IF node[1] = "For" THEN 2 + Len(node[2]) ELSE node[3]

\* The nodes interner.expression may answer with, within a budget of nodes.
\* An array literal has at least one element (arr_types[0] is read
\* unconditionally); the loop identifier occurs only inside a loop body.
NodeChoices(n, inLoop) ==
    {<<"Integer", <<>>, 0>>, <<"Bool", <<>>, 0>>, <<"Str", <<>>, 0>>}
    \cup {<<"Ident", x, 0>> : x \in GlobalIdents \cup (IF inLoop THEN {LoopIdent} ELSE {})}
    \cup {<<"Array", <<>>, k>> : k \in 1..n}
    \cup {<<"Call", f, k>> : f \in FuncIds, k \in 0..n}
    \cup (IF n >= 1
          THEN {<<"Index", c, 1>> : c \in Collections}
               \cup {<<"Cast", t, 1>> : t \in CastTypes}
               \cup {<<"Prefix", <<>>, 1>>, <<"If", <<>>, 1>>}
          ELSE {})
    \cup (IF n >= 2
          THEN {<<"Infix", o, 2>> : o \in WalkOps}
               \cup {<<"Predicate", <<>>, 2>>}
               \cup {<<"For", b, 2 + ExprStatementsIn(b, Len(b))>> : b \in BlocksUpTo(n - 2)}
          ELSE {})

Root == <<>>
Kid(h, k) == h \o <<k>>

(***************************************************************************)
(* The checker's state.                                                    *)
(***************************************************************************)
Top == stack[Len(stack)]
expression(h) == program[h]
Kind(h) == expression(h)[1]
Attr(h) == expression(h)[2]
NumKids(h) == expression(h)[3]
id_type(h) == id_to_type[h]

Running(kind, pc) ==
    /\ status = "running"
    /\ stack # <<>>
    /\ Top.h \in DOMAIN program
    /\ Kind(Top.h) = kind
    /\ Top.pc = pc

\* An identifier of the loop is in scope inside the body of a For being checked.
InLoopBody ==
    \E i \in 1..Len(stack) :
        /\ stack[i].h \in DOMAIN program
        /\ Kind(stack[i].h) = "For"
        /\ stack[i].pc >= 3

\* DefInterner::push_expr_type: id_to_type.insert(expr_id, typ)
push_expr_type(table, h, typ) ==
    [x \in DOMAIN table \cup {h} |-> IF x = h THEN typ ELSE table[x]]

\* DefInterner::push_ident_type
push_ident_type(table, ident, typ) ==
    [x \in DOMAIN table \cup {ident} |-> IF x = ident THEN typ ELSE table[x]]

\* The stack after the top call returns: the caller goes on after the call.
ReturnTo(st) ==
    IF Len(st) = 1 THEN <<>>
    ELSE [SubSeq(st, 1, Len(st) - 1) EXCEPT ![Len(st) - 1].pc = @ + 1]

\* interner.push_expr_type(expr_id, typ) as the last statement of an arm
PushAndReturn(typ) ==
    /\ id_to_type' = push_expr_type(id_to_type, Top.h, typ)
    /\ pushes' = Append(pushes, <<Top.h, typ>>)
    /\ stack' = ReturnTo(stack)
    /\ status' = IF Len(stack) = 1 THEN "done" ELSE status
    /\ UNCHANGED <<program, budget, bindings, ident_type, visited, err>>

\* A checker that recovers from an error by recording Type::Error for the
\* failing expression.
PanicRecordsError(kind, detail) ==
    /\ status' = "panic"
    /\ err' = <<kind, detail>>
    /\ id_to_type' = push_expr_type(id_to_type, Top.h, TError)
    /\ pushes' = Append(pushes, <<Top.h, TError>>)
    /\ UNCHANGED <<program, budget, bindings, stack, ident_type, visited>>

\* panic!, unimplemented!, todo!, expect: the process stops where it is.
Panic(kind, detail) ==
    /\ status' = "panic"
    /\ err' = <<kind, detail>>
    /\ UNCHANGED <<program, budget, bindings, stack, id_to_type, ident_type, pushes, visited>>

\* type_check_expression(interner, child)
Enter(child) ==
    /\ stack' = Append(stack, [h |-> child, pc |-> 0])
    /\ visited' = visited \cup {child}
    /\ UNCHANGED <<program, budget, bindings, id_to_type, ident_type, pushes, status, err>>

Init ==
    /\ program = <<>>
    /\ budget = MaxNodes - 1
    /\ bindings = <<>>
    /\ stack = <<[h |-> Root, pc |-> 0]>>
    /\ id_to_type = <<>>
    /\ ident_type = GlobalTypes
    /\ pushes = <<>>
    /\ visited = {Root}
    /\ status = "running"
    /\ err = <<>>
    /\ lhs_type = <<>>
    /\ op = ""
    /\ other = <<>>
    /\ result = <<>>

\* let hir_expr = interner.expression(expr_id)
ReadExpression ==
    /\ status = "running"
    /\ stack # <<>>
    /\ Top.h \notin DOMAIN program
    /\ \E node \in NodeChoices(budget, InLoopBody) :
        /\ program' = [x \in DOMAIN program \cup {Top.h} |->
                          IF x = Top.h THEN node ELSE program[x]]
        /\ budget' = budget - Cost(node)
    /\ UNCHANGED <<bindings, stack, id_to_type, ident_type, pushes, visited, status, err>>
    /\ UNCHANGED rulesVars

(***************************************************************************)
(* type_check_expression, arm by arm.  A frame's pc counts the calls of    *)
(* type_check_expression the arm has completed (for a Call, plus one once  *)
(* the arity check has passed; for a For, plus one once the loop variable  *)
(* is bound, plus the block statements done).                              *)
(***************************************************************************)
\* HirExpression::Ident
Ident ==
    /\ Running("Ident", 0)
    /\ PushAndReturn(ident_type[Attr(Top.h)])
    /\ UNCHANGED rulesVars

\* HirLiteral::Integer
LiteralInteger ==
    /\ Running("Integer", 0)
    /\ PushAndReturn(TConstant)
    /\ UNCHANGED rulesVars

\* HirLiteral::Bool
LiteralBool ==
    /\ Running("Bool", 0)
    /\ Panic("Unimplemented", "Bool")
    /\ UNCHANGED rulesVars

\* HirLiteral::Str
LiteralStr ==
    /\ Running("Str", 0)
    /\ Panic("Unimplemented", "Str")
    /\ UNCHANGED rulesVars

\* HirLiteral::Array: the loop over arr.contents
LiteralArrayElement ==
    /\ \E k \in 0..MaxNodes : Running("Array", k) /\ k < NumKids(Top.h)
    /\ Enter(Kid(Top.h, Top.pc + 1))
    /\ UNCHANGED rulesVars

\* The types pushed into arr_types, in order.
ArrTypes(h) == [k \in 1..NumKids(h) |-> id_type(Kid(h, k))]

\* A homogeneity check that looks at the first window only.
FirstUnequalWindowOnlyFirst(types) ==
    IF Len(types) >= 2 /\ types[1] # types[2] THEN 1 ELSE 0

\* The first window of windows(2) whose two types differ; 0 when there is none.
FirstUnequalWindow(types) ==
    LET bad == {k \in 1..(Len(types) - 1) : types[k] # types[k + 1]}
    IN  IF bad = {} THEN 0 ELSE CHOOSE k \in bad : \A j \in bad : k <= j

\* The one-element case without its `return`: the type is pushed again after
\* the (empty) loop over the windows.
LiteralArrayFinishNoReturn ==
    /\ \E k \in 1..MaxNodes : Running("Array", k) /\ k = NumKids(Top.h)
    /\ LET arr_types == ArrTypes(Top.h)
           arr_type == TArray(Fixed(Len(arr_types)), arr_types[1])
           w == FirstUnequalWindow(arr_types)
       IN  IF w # 0 THEN Panic("ArrayNotHomogeneous", <<arr_types[w], arr_types[w + 1]>>)
           ELSE IF Len(arr_types) = 1
           THEN /\ id_to_type' = push_expr_type(push_expr_type(id_to_type, Top.h, arr_type),
                                                Top.h, arr_type)
                /\ pushes' = pushes \o <<<<Top.h, arr_type>>, <<Top.h, arr_type>>>>
                /\ stack' = ReturnTo(stack)
                /\ status' = IF Len(stack) = 1 THEN "done" ELSE status
                /\ UNCHANGED <<program, budget, bindings, ident_type, visited, err>>
           ELSE PushAndReturn(arr_type)
    /\ UNCHANGED rulesVars

\* HirLiteral::Array: after the loop
LiteralArrayFinish ==
    /\ \E k \in 1..MaxNodes : Running("Array", k) /\ k = NumKids(Top.h)
    /\ LET arr_types == ArrTypes(Top.h)
           arr_type == TArray(Fixed(Len(arr_types)), arr_types[1])
           w == FirstUnequalWindow(arr_types)
       IN  IF Len(arr_types) = 1 THEN PushAndReturn(arr_type)
           ELSE IF w # 0 THEN Panic("ArrayNotHomogeneous", <<arr_types[w], arr_types[w + 1]>>)
           ELSE PushAndReturn(arr_type)
    /\ UNCHANGED rulesVars

\* HirExpression::Infix: type_check_expression(interner, infix_expr.lhs)
InfixLhs ==
    /\ Running("Infix", 0)
    /\ Enter(Kid(Top.h, 1))
    /\ UNCHANGED rulesVars

\* HirExpression::Infix: type_check_expression(interner, infix_expr.rhs)
InfixRhs ==
    /\ Running("Infix", 1)
    /\ Enter(Kid(Top.h, 2))
    /\ UNCHANGED rulesVars

\* HirExpression::Infix: infix_operand_type_rules(..).expect(..), push_expr_type
InfixFinish ==
    /\ Running("Infix", 2)
    /\ LET result_type == infix_operand_type_rules(id_type(Kid(Top.h, 1)), Attr(Top.h),
                                                   id_type(Kid(Top.h, 2)))
       IN  IF result_type[1] = "Ok" THEN PushAndReturn(result_type[2])
           ELSE Panic("TypeMismatch", result_type)
    /\ UNCHANGED rulesVars

\* HirExpression::Index
Index ==
    /\ Running("Index", 0)
    /\ LET collection_type == ident_type[Attr(Top.h)]
       IN  IF IsArray(collection_type) THEN PushAndReturn(collection_type[3])
           ELSE Panic("NotAnArray", collection_type)
    /\ UNCHANGED rulesVars

ParamLen(h) == Len(function_meta(Attr(h)).parameters)

\* A Call arm that goes on to the arguments whatever their number.
CallArityUnchecked ==
    /\ Running("Call", 0)
    /\ stack' = [stack EXCEPT ![Len(stack)].pc = 1]
    /\ UNCHANGED <<program, budget, bindings, id_to_type, ident_type, pushes,
                   visited, status, err>>
    /\ UNCHANGED rulesVars

\* HirExpression::Call: the arity check
CallArity ==
    /\ Running("Call", 0)
    /\ LET param_len == ParamLen(Top.h)
           arg_len == NumKids(Top.h)
       IN  IF param_len # arg_len THEN Panic("Arity", <<param_len, arg_len>>)
           ELSE /\ stack' = [stack EXCEPT ![Len(stack)].pc = 1]
                /\ UNCHANGED <<program, budget, bindings, id_to_type, ident_type, pushes,
                               visited, status, err>>
    /\ UNCHANGED rulesVars

\* HirExpression::Call: the loop over call_expr.arguments
CallArgument ==
    /\ \E k \in 1..MaxNodes : Running("Call", k) /\ k <= NumKids(Top.h)
    /\ Enter(Kid(Top.h, Top.pc))
    /\ UNCHANGED rulesVars

\* check_param_argument without its first check.
check_param_argument_any_size(param, arg_type) ==
    LET param_type == param[2]
        param_id == param[1]
    IN  IF is_variable_sized_array(param_type) /\ is_fixed_sized_array(arg_type) THEN <<>>
        ELSE IF param_type # arg_type THEN <<"ParameterType", param_id>>
        ELSE <<>>

\* check_param_argument: <<>> when it returns, the panic when it panics
check_param_argument(param, arg_type) ==
    LET param_type == param[2]
        param_id == param[1]
    IN  IF is_variable_sized_array(arg_type) THEN <<"VariableSizedArgument", param_id>>
        ELSE IF is_variable_sized_array(param_type) /\ is_fixed_sized_array(arg_type) THEN <<>>
        ELSE IF param_type # arg_type THEN <<"ParameterType", param_id>>
        ELSE <<>>

\* HirExpression::Call: the loop over parameters.zip(arg_types), push_expr_type
CallFinish ==
    /\ \E k \in 1..(MaxNodes + 1) : Running("Call", k) /\ k = NumKids(Top.h) + 1
    /\ LET func_meta == function_meta(Attr(Top.h))
           n == IF Len(func_meta.parameters) < NumKids(Top.h)
                THEN Len(func_meta.parameters) ELSE NumKids(Top.h)
           checks == [k \in 1..n |->
                         check_param_argument(func_meta.parameters[k], id_type(Kid(Top.h, k)))]
           bad == {k \in 1..n : checks[k] # <<>>}
       IN  IF bad # {}
           THEN LET k == CHOOSE j \in bad : \A i \in bad : j <= i
                IN  Panic(checks[k][1], checks[k][2])
           ELSE PushAndReturn(func_meta.return_type)
    /\ UNCHANGED rulesVars

\* HirExpression::Cast: type_check_expression(interner, cast_expr.lhs)
CastLhs ==
    /\ Running("Cast", 0)
    /\ Enter(Kid(Top.h, 1))
    /\ UNCHANGED rulesVars

\* HirExpression::Cast: push_expr_type(expr_id, cast_expr.type)
CastFinish ==
    /\ Running("Cast", 1)
    /\ PushAndReturn(Attr(Top.h))
    /\ UNCHANGED rulesVars

\* HirExpression::For: type_check_expression(interner, for_expr.start_range)
ForStartRange ==
    /\ Running("For", 0)
    /\ Enter(Kid(Top.h, 1))
    /\ UNCHANGED rulesVars

\* HirExpression::For: type_check_expression(interner, for_expr.end_range)
ForEndRange ==
    /\ Running("For", 1)
    /\ Enter(Kid(Top.h, 2))
    /\ UNCHANGED rulesVars

\* HirExpression::For: the checks of the range types, push_ident_type
ForBounds ==
    /\ Running("For", 2)
    /\ LET start_range_type == id_type(Kid(Top.h, 1))
           end_range_type == id_type(Kid(Top.h, 2))
       IN  IF start_range_type # TConstant THEN Panic("RangeNotConstant", "start")
           ELSE IF end_range_type # TConstant THEN Panic("RangeNotConstant", "end")
           ELSE IF start_range_type # end_range_type THEN Panic("RangeTypesDiffer", "")
           ELSE /\ ident_type' = push_ident_type(ident_type, LoopIdent, start_range_type)
                /\ bindings' = Append(bindings, <<Top.h, start_range_type>>)
                /\ stack' = [stack EXCEPT ![Len(stack)].pc = 3]
                /\ UNCHANGED <<program, budget, id_to_type, pushes, visited, status, err>>
    /\ UNCHANGED rulesVars

\* super::stmt::type_check(interner, for_expr.block): a statement that owns an
\* expression has it checked
BlockStatementExpression ==
    /\ \E k \in 3..(MaxNodes + 3) :
        /\ Running("For", k)
        /\ k - 3 < Len(Attr(Top.h))
        /\ HasExpression(Attr(Top.h)[k - 2])
    /\ Enter(Kid(Top.h, 2 + ExprStatementsIn(Attr(Top.h), Top.pc - 2)))
    /\ UNCHANGED rulesVars

\* super::stmt::type_check(interner, for_expr.block): a nested block statement
BlockStatementBlock ==
    /\ \E k \in 3..(MaxNodes + 3) :
        /\ Running("For", k)
        /\ k - 3 < Len(Attr(Top.h))
        /\ ~HasExpression(Attr(Top.h)[k - 2])
    /\ stack' = [stack EXCEPT ![Len(stack)].pc = @ + 1]
    /\ UNCHANGED <<program, budget, bindings, id_to_type, ident_type, pushes, visited,
                   status, err>>
    /\ UNCHANGED rulesVars

\* extract_last_type_from_block taking the value of any last statement that
\* owns an expression.
extract_last_type_any_statement(h) ==
    LET statements == Attr(h)
    IN  IF Len(statements) = 0 THEN Ok(TUnit)
        ELSE LET last_stmt == statements[Len(statements)]
             IN  IF last_stmt = "Block" THEN <<"Panic">>
                 ELSE Ok(id_type(Kid(h, 2 + ExprStatementsIn(statements, Len(statements)))))

\* extract_last_type_from_block: <<"Ok", type>>, or <<"Panic">> on a nested block.
\* for_expr.block is a HirStatement::Block, so the outer match takes its first arm.
extract_last_type_from_block(h) ==
    LET statements == Attr(h)
    IN  IF Len(statements) = 0 THEN Ok(TUnit)
        ELSE LET last_stmt == statements[Len(statements)]
             IN  IF last_stmt = "Expression"
                 THEN Ok(id_type(Kid(h, 2 + ExprStatementsIn(statements, Len(statements)))))
                 ELSE IF last_stmt = "Block" THEN <<"Panic">>
                 ELSE Ok(TUnit)

\* HirExpression::For: extract_last_type_from_block, push_expr_type
ForFinish ==
    /\ \E k \in 3..(MaxNodes + 3) : Running("For", k) /\ k - 3 = Len(Attr(Top.h))
    /\ LET last_type == extract_last_type_from_block(Top.h)
       IN  IF last_type[1] = "Ok" THEN PushAndReturn(TArray(Variable, last_type[2]))
           ELSE Panic("NestedBlock", "")
    /\ UNCHANGED rulesVars

\* HirExpression::Prefix
Prefix ==
    /\ Running("Prefix", 0)
    /\ Panic("Todo", "Prefix")
    /\ UNCHANGED rulesVars

\* HirExpression::Predicate
Predicate ==
    /\ Running("Predicate", 0)
    /\ Panic("Todo", "Predicate")
    /\ UNCHANGED rulesVars

\* HirExpression::If
If ==
    /\ Running("If", 0)
    /\ Panic("Todo", "If")
    /\ UNCHANGED rulesVars

Next ==
    \/ ReadExpression
    \/ Ident
    \/ LiteralInteger
    \/ LiteralBool
    \/ LiteralStr
    \/ LiteralArrayElement
    \/ LiteralArrayFinish
    \/ InfixLhs
    \/ InfixRhs
    \/ InfixFinish
    \/ Index
    \/ CallArity
    \/ CallArgument
    \/ CallFinish
    \/ CastLhs
    \/ CastFinish
    \/ ForStartRange
    \/ ForEndRange
    \/ ForBounds
    \/ BlockStatementExpression
    \/ BlockStatementBlock
    \/ ForFinish
    \/ Prefix
    \/ Predicate
    \/ If

Spec == Init /\ [][Next]_vars

(***************************************************************************)
(* Properties of type_check_expression, checked under Spec.                *)
(***************************************************************************)
PushedHandles == {pushes[i][1] : i \in DOMAIN pushes}
StackHandles == {stack[i].h : i \in DOMAIN stack}
Typed(h) == h \in DOMAIN id_to_type
KnownHandles ==
    {Root} \cup UNION {{Kid(h, k) : k \in 1..NumKids(h)} : h \in DOMAIN program}
IsUnder(d, h) == Len(d) > Len(h) /\ SubSeq(d, 1, Len(h)) = h
AllKidsTyped(h) == \A k \in 1..NumKids(h) : Typed(Kid(h, k))
NoKidVisited(h) == \A k \in 1..NumKids(h) : Kid(h, k) \notin visited
PanickedAt(h) == status = "panic" /\ Top.h = h

\* C1: every expression handle has a type recorded at most once and a
\* recorded type is never overwritten (the table holds, for each handle, the
\* one type pushed for it); the recording is the last action for the handle
\* (no call for a handle is still running once its type is recorded); and
\* when the run succeeds every visited handle has exactly one type recorded.
C1_WrittenOnce ==
    /\ \A i, j \in DOMAIN pushes : pushes[i][1] = pushes[j][1] => i = j
    /\ DOMAIN id_to_type = PushedHandles
    /\ \A i \in DOMAIN pushes : id_to_type[pushes[i][1]] = pushes[i][2]
    /\ StackHandles \cap PushedHandles = {}
    /\ status = "done" => visited = PushedHandles

\* A successful run over an Infix expression: three handles, three pushes.
C1_Witness ==
    /\ status = "done"
    /\ Kind(Root) = "Infix"
    /\ Len(pushes) >= 3
    /\ pushes[Len(pushes)][1] = Root

\* C2: once an expression's type is recorded, every sub-expression handle in
\* its tree has a recorded type.
C2_SubExpressionsTyped ==
    \A h \in DOMAIN id_to_type :
        \A d \in KnownHandles : IsUnder(d, h) => Typed(d)

\* C6: an array literal of n elements that all checked gets the type
\* Array(Fixed(n), type of the first element) exactly when all element types
\* are equal; otherwise the checker stops with the heterogeneous-array error
\* of the first unequal adjacent pair and the literal gets no type.
C6_ArrayLiteral ==
    \A h \in DOMAIN program :
        Kind(h) = "Array" =>
            LET n == NumKids(h)
                T(k) == id_to_type[Kid(h, k)]
            IN  /\ Typed(h) =>
                    /\ AllKidsTyped(h)
                    /\ \A j, k \in 1..n : T(j) = T(k)
                    /\ id_to_type[h] = TArray(Fixed(n), T(1))
                /\ (PanickedAt(h) /\ AllKidsTyped(h)) =>
                    /\ n > 1
                    /\ ~Typed(h)
                    /\ err[1] = "ArrayNotHomogeneous"
                    /\ \E k \in 1..(n - 1) :
                        /\ T(k) # T(k + 1)
                        /\ \A j \in 1..(k - 1) : T(j) = T(j + 1)
                        /\ err[2] = <<T(k), T(k + 1)>>

\* Three elements, the first two of one type: the error names the second pair.
C6_Witness ==
    /\ status = "panic"
    /\ Top.h \in DOMAIN program
    /\ Kind(Top.h) = "Array"
    /\ NumKids(Top.h) = 3
    /\ AllKidsTyped(Top.h)
    /\ id_to_type[Kid(Top.h, 1)] = id_to_type[Kid(Top.h, 2)]
    /\ err[1] = "ArrayNotHomogeneous"
    /\ err[2] = <<id_to_type[Kid(Top.h, 2)], id_to_type[Kid(Top.h, 3)]>>

ReturnType(h) == function_meta(Attr(h)).return_type
ParamType(h, k) == function_meta(Attr(h)).parameters[k][2]

\* The condition of C7 on a call's arguments.
CallAccepted(h) ==
    /\ NumKids(h) = ParamLen(h)
    /\ \A k \in 1..NumKids(h) :
        /\ Typed(Kid(h, k))
        /\ LET arg == id_to_type[Kid(h, k)]
               param == ParamType(h, k)
           IN  /\ ~(IsArray(arg) /\ arg[2] = Variable)
               /\ \/ IsArray(param) /\ param[2] = Variable /\ IsArray(arg) /\ arg[2] # Variable
                  \/ param = arg

\* C7: a call whose arguments all checked gets a type, the callee's return
\* type, exactly when the argument count equals the parameter count and every
\* argument type is not a variable-sized array and either is a fixed-size array
\* for a variable-sized array parameter or equals the parameter type; otherwise
\* the checker stops and the call gets no type.
C7_CallArguments ==
    \A h \in DOMAIN program :
        Kind(h) = "Call" =>
            /\ Typed(h) => (CallAccepted(h) /\ id_to_type[h] = ReturnType(h))
            /\ PanickedAt(h) => (~CallAccepted(h) /\ ~Typed(h))

\* A variable-sized array argument for the identical variable-sized parameter.
C7_Witness ==
    /\ status = "panic"
    /\ Top.h \in DOMAIN program
    /\ Kind(Top.h) = "Call"
    /\ NumKids(Top.h) = 1
    /\ ParamLen(Top.h) = 1
    /\ Typed(Kid(Top.h, 1))
    /\ id_to_type[Kid(Top.h, 1)] = ParamType(Top.h, 1)
    /\ is_variable_sized_array(ParamType(Top.h, 1))
    /\ err[1] = "VariableSizedArgument"

BoundBy(h) == \E i \in DOMAIN bindings : bindings[i][1] = h
BodyVisited(h) == \E k \in 3..NumKids(h) : Kid(h, k) \in visited

\* The type C8 gives the body of the For h.
TrailingType(h) ==
    IF Len(Attr(h)) = 0 THEN TUnit
    ELSE IF Attr(h)[Len(Attr(h))] = "Expression" THEN id_to_type[Kid(h, NumKids(h))]
    ELSE TUnit

\* C8: a For whose start is not Constant stops with the range error for the
\* start, else one whose end is not Constant with the range error for the end;
\* in both cases the loop variable is not bound, the body is not checked and
\* the loop gets no type.  With both Constant the loop variable is bound to
\* Constant before any of the body is checked, and the loop's type is
\* Array(Variable, T), T the type of the last statement when it is an
\* expression statement, Unit when the body is empty or ends otherwise.
C8_ForLoop ==
    \A h \in DOMAIN program :
        Kind(h) = "For" =>
            LET S == id_to_type[Kid(h, 1)]
                E == id_to_type[Kid(h, 2)]
            IN  /\ (PanickedAt(h) /\ Top.pc = 2) =>
                    /\ err[1] = "RangeNotConstant"
                    /\ S # TConstant => err[2] = "start"
                    /\ S = TConstant => (E # TConstant /\ err[2] = "end")
                /\ (Typed(Kid(h, 1)) /\ Typed(Kid(h, 2)) /\ (S # TConstant \/ E # TConstant)) =>
                    /\ ~BoundBy(h)
                    /\ ~BodyVisited(h)
                    /\ ~Typed(h)
                /\ (BodyVisited(h) \/ Typed(h)) =>
                    /\ S = TConstant
                    /\ E = TConstant
                    /\ \E i \in DOMAIN bindings : bindings[i] = <<h, TConstant>>
                /\ Typed(h) =>
                    /\ Len(Attr(h)) > 0 => Attr(h)[Len(Attr(h))] # "Block"
                    /\ id_to_type[h] = TArray(Variable, TrailingType(h))

\* A loop whose body ends with the expression statement `i`.
C8_Witness ==
    /\ status = "done"
    /\ Kind(Root) = "For"
    /\ Attr(Root) = <<"Expression">>
    /\ Kind(Kid(Root, 3)) = "Ident"
    /\ Attr(Kid(Root, 3)) = LoopIdent
    /\ id_to_type[Root] = TArray(Variable, TConstant)

\* C9: once a check raises an error nothing more is recorded or visited, the
\* failing expression and its ancestors have no recorded type, and the step
\* that raises the error leaves the recorded types as they were.
C9_FailFast ==
    /\ [](status = "panic" => StackHandles \cap DOMAIN id_to_type = {})
    /\ [][status = "panic" => UNCHANGED <<id_to_type, pushes, visited, stack>>]_vars
    /\ [][status' = "panic" => (id_to_type' = id_to_type /\ visited' = visited)]_vars

\* The second of three array elements fails: the first keeps its type, the
\* third is never visited.
C9_Witness ==
    /\ status = "panic"
    /\ Kind(Root) = "Array"
    /\ NumKids(Root) = 3
    /\ Len(stack) = 2
    /\ Top.h = Kid(Root, 2)
    /\ Typed(Kid(Root, 1))
    /\ Kid(Root, 3) \notin visited
    /\ ~Typed(Root)

\* C10: when the arity error of a call is raised, all its argument handles
\* already have recorded types.
C10_ArgumentsBeforeArity ==
    (status = "panic" /\ err[1] = "Arity") => AllKidsTyped(Top.h)

\* C10 as amended: the arity check comes first.  An argument of a call is
\* visited only if the argument count equals the parameter count; the arity
\* error is raised with no argument visited; the per-parameter errors are
\* raised only after every argument has its type recorded.
C10_ArityBeforeArguments ==
    \A h \in DOMAIN program :
        Kind(h) = "Call" =>
            /\ ~NoKidVisited(h) => NumKids(h) = ParamLen(h)
            /\ (PanickedAt(h) /\ NumKids(h) # ParamLen(h)) =>
                (err[1] = "Arity" /\ NoKidVisited(h) /\ ~Typed(h))
            /\ (PanickedAt(h) /\ NumKids(h) = ParamLen(h)) =>
                (err[1] \in {"ParameterType", "VariableSizedArgument"} /\ AllKidsTyped(h))

\* Two arguments for the one parameter of f1: the arity error, no argument visited.
C10_Witness ==
    /\ status = "panic"
    /\ err[1] = "Arity"
    /\ NumKids(Top.h) = 2
    /\ ParamLen(Top.h) = 1
    /\ NoKidVisited(Top.h)

(***************************************************************************)
(* Properties of infix_operand_type_rules, checked under SpecRules.        *)
(***************************************************************************)
Called == result # <<>>
Outcome(r) == <<r[1], r[2]>>
BothInteger(a, b) == IsInteger(a) /\ IsInteger(b)
OneInteger(a, b) == IsInteger(a) \/ IsInteger(b)
TheInteger(a, b) == IF IsInteger(a) THEN a ELSE b
TheOther(a, b) == IF IsInteger(a) THEN b ELSE a
Either(t, a, b) == a = t \/ b = t

\* The ordered rule list: <<the rule applies, its outcome>>.
RuleList(a, o, b) ==
    << <<o \in Comparators, <<"Ok", TBool>> >>,
       <<BothInteger(a, b) /\ a[2] # b[2], <<"Err", "IntegerSignedness">> >>,
       <<BothInteger(a, b) /\ a[3] # b[3], <<"Err", "IntegerBitWidth">> >>,
       <<BothInteger(a, b), <<"Ok", a>> >>,
       <<OneInteger(a, b) /\ TheOther(a, b) = TWitness, <<"Err", "IntegerWitness">> >>,
       <<OneInteger(a, b) /\ TheOther(a, b) = TConstant, <<"Ok", TheInteger(a, b)>> >>,
       <<OneInteger(a, b), <<"Err", "IntegerOther">> >>,
       <<IsArray(a) \/ IsArray(b), <<"Err", "ArrayInfix">> >>,
       <<Either(TError, a, b), <<"Ok", TError>> >>,
       <<Either(TUnspecified, a, b), <<"Ok", TUnspecified>> >>,
       <<Either(TUnknown, a, b), <<"Ok", TUnknown>> >>,
       <<Either(TUnit, a, b), <<"Ok", TUnit>> >>,
       <<Either(TWitness, a, b), <<"Ok", TWitness>> >>,
       <<Either(TPublic, a, b), <<"Ok", TWitness>> >>,
       <<Either(TBool, a, b), <<"Ok", TBool>> >>,
       <<Either(TField, a, b), <<"Ok", TField>> >>,
       <<a = TConstant /\ b = TConstant, <<"Ok", TConstant>> >> >>

Matching(rules) == {k \in 1..Len(rules) : rules[k][1]}
FirstMatching(rules) == CHOOSE k \in Matching(rules) : \A j \in Matching(rules) : k <= j

C4_SymmetricUnderSwap ==
    Called =>
        LET swapped == infix_operand_type_rules(other, op, lhs_type)
        IN  /\ swapped[1] = result[1]
            /\ swapped[2] = result[2]

\* A mixed pair: Constant on the left, Integer on the right.
C4_Witness ==
    /\ Called
    /\ ~is_comparator(op)
    /\ lhs_type = TConstant
    /\ IsInteger(other)
    /\ result = Ok(other)

Placeholders == {TUnknown, TUnspecified, TError}

\* C5: with a non-comparison operator, a placeholder type (Unknown,
\* Unspecified, Error) on either side and any type on the other, the call
\* succeeds and returns a placeholder type.
C5_PlaceholderAbsorbs ==
    (/\ Called
     /\ ~is_comparator(op)
     /\ (lhs_type \in Placeholders \/ other \in Placeholders))
    => (result[1] = "Ok" /\ result[2] \in Placeholders)

====
